---- MODULE Spec2Model ----
(***************************************************************************)
(* A model of the Homevolt client (homevolt/homevolt.py, homevolt/const.py, *)
(* homevolt/models.py): the transport session, the telemetry and schedule   *)
(* parsers, the local-mode switch and the battery-mode command builder.     *)
(*                                                                          *)
(* Python values are tagged records, so that None, booleans, integers,      *)
(* floats and strings can be stored in the same field and compared.         *)
(* A dict is a function whose domain is the set of keys that are present.   *)
(***************************************************************************)
EXTENDS Integers, Sequences, FiniteSets, TLC

VARIABLES websession, own_session, created, closed, ops,
          unique_id, sensors, device_metadata, current_schedule, schedule,
          last

vars == <<websession, own_session, created, closed, ops,
          unique_id, sensors, device_metadata, current_schedule, schedule,
          last>>

(* ------------------------------------------------------------------------ *)
(* Python values                                                            *)
(* ------------------------------------------------------------------------ *)

None == [t |-> "none"]

I(n) == [t |-> "int", i |-> n]

\* a float, kept as the fraction num / den
F(n, d) == [t |-> "float", num |-> n, den |-> d]

S(s) == [t |-> "str", s |-> s]

B(b) == [t |-> "bool", b |-> b]

\* truth value testing: None, False, 0, 0.0 and "" are falsy
Truthy(v) ==
    CASE v.t = "none" -> FALSE
      [] v.t = "bool" -> v.b
      [] v.t = "int" -> v.i # 0
      [] v.t = "float" -> v.num # 0
      [] v.t = "str" -> v.s # ""

\* a or b
PyOr(a, b) == IF Truthy(a) THEN a ELSE b

\* int(v) for a number: an int is kept, a float is truncated towards zero
PyInt(v) ==
    CASE v.t = "int" -> v
      [] v.t = "float" ->
            IF v.num >= 0 THEN I(v.num \div v.den) ELSE I(-((-v.num) \div v.den))

\* v / k
PyDiv(v, k) ==
    CASE v.t = "int" -> F(v.i, k)
      [] v.t = "float" -> F(v.num, v.den * k)

\* d.get(k, default)
GetOr(d, k, default) == IF k \in DOMAIN d THEN d[k] ELSE default

\* d.get(k)
Get(d, k) == GetOr(d, k, None)

EmptyDict == [k \in {} |-> None]

(* ------------------------------------------------------------------------ *)
(* const.py                                                                 *)
(* ------------------------------------------------------------------------ *)

ENDPOINT_CONSOLE == "/console.json"

ENDPOINT_PARAMS == "/params.json"

\* the dict SCHEDULE_TYPE: its keys are the strings on the left
SCHEDULE_TYPE ==
    [k \in {S("frequency_reserve"), S("full_solar_export"), S("grid_charge"),
            S("grid_charge_discharge"), S("grid_discharge"), S("idle"),
            S("inverter_charge"), S("inverter_discharge"), S("solar_charge"),
            S("solar_charge_discharge")} |->
        CASE k = S("frequency_reserve") -> S("Frequency reserve")
          [] k = S("full_solar_export") -> S("Full solar export")
          [] k = S("grid_charge") -> S("Grid charge")
          [] k = S("grid_charge_discharge") -> S("Grid charge/discharge")
          [] k = S("grid_discharge") -> S("Grid discharge")
          [] k = S("idle") -> S("Idle")
          [] k = S("inverter_charge") -> S("Inverter charge")
          [] k = S("inverter_discharge") -> S("Inverter discharge")
          [] k = S("solar_charge") -> S("Solar charge")
          [] k = S("solar_charge_discharge") -> S("Solar charge/discharge")]

(* ------------------------------------------------------------------------ *)
(* Homevolt.__init__ and the properties                                     *)
(* ------------------------------------------------------------------------ *)

\* self.schedule as __init__ leaves it
InitialSchedule ==
    [mode |-> None, setpoint |-> None, max_charge |-> None,
     max_discharge |-> None, min_soc |-> None, max_soc |-> None,
     grid_import_limit |-> None, grid_export_limit |-> None,
     threshold_high |-> None, threshold_low |-> None,
     freq_reg_droop_up |-> None, freq_reg_droop_down |-> None]

\* the value None of self._websession and of self.current_schedule
NoSession == [kind |-> "none"]

SuppliedSession == [kind |-> "supplied"]

CreatedSession(n) == [kind |-> "created", n |-> n]

NoSchedule == [kind |-> "none"]

Fetched(doc) == [kind |-> "doc", doc |-> doc]

\* a variant that takes any fetched schedule response for an enabled local mode
local_mode_enabled_AnyFetched(cs) == cs # NoSchedule

\* the property local_mode_enabled, as the condition `not self.local_mode_enabled` reads it
local_mode_enabled(cs) ==
    IF cs = NoSchedule THEN FALSE
    ELSE Truthy(GetOr(cs.doc, "local_mode", B(FALSE)))

(* ------------------------------------------------------------------------ *)
(* set_battery_mode: validation, merge, mode rules, rendering                *)
(* ------------------------------------------------------------------------ *)

\* valid_modes = {v: k for k, v in SCHEDULE_TYPE.items()}
valid_modes ==
    [v \in {SCHEDULE_TYPE[k] : k \in DOMAIN SCHEDULE_TYPE} |->
        CHOOSE k \in DOMAIN SCHEDULE_TYPE : SCHEDULE_TYPE[k] = v]

\* `mode not in valid_modes` for a mode that is not None
ModeRejected(mode) == mode # None /\ mode \notin DOMAIN valid_modes

\* mode_int after validation
ValidatedMode(mode) == IF mode = None THEN None ELSE valid_modes[mode]

\* a variant that tests the stored value for truth (`stored or default`)
MergeDefault_StoredOrDefault(arg, stored, default) ==
    PyInt(IF arg # None THEN arg ELSE IF Truthy(stored) THEN stored ELSE I(default))

\* int(arg if arg is not None else (stored if stored is not None else default))
MergeDefault(arg, stored, default) ==
    PyInt(IF arg # None THEN arg ELSE IF stored # None THEN stored ELSE I(default))

\* int(arg) if arg is not None else stored
MergeLimit(arg, stored) == IF arg # None THEN PyInt(arg) ELSE stored

\* the seven *_val locals before the mode rules, with mode_int
Merged(req, sched) ==
    [mode_int |-> ValidatedMode(req.mode),
     setpoint_val |-> MergeDefault(req.setpoint, sched.setpoint, 0),
     max_charge_val |-> MergeDefault(req.max_charge, sched.max_charge, 0),
     max_discharge_val |-> MergeDefault(req.max_discharge, sched.max_discharge, 0),
     min_soc_val |-> MergeDefault(req.min_soc, sched.min_soc, 0),
     max_soc_val |-> MergeDefault(req.max_soc, sched.max_soc, 100),
     grid_import_limit_val |-> MergeLimit(req.grid_import_limit, sched.grid_import_limit),
     grid_export_limit_val |-> MergeLimit(req.grid_export_limit, sched.grid_export_limit)]

\* a variant that tests for a setpoint before it tests for all three arguments
AutoDetect_SetpointFirst(req, sched) ==
    IF req.setpoint # None THEN I(3)
    ELSE IF req.max_charge # None /\ req.max_discharge = None THEN I(1)
    ELSE IF req.max_discharge # None /\ req.max_charge = None THEN I(2)
    ELSE IF sched.mode # None THEN sched.mode ELSE I(0)

\* a variant that detects the mode from the merged values (argument or stored
\* value present) instead of the caller's arguments
AutoDetect_FromMerged(req, sched) ==
    LET has(f) == req[f] # None \/ sched[f] # None IN
    IF has("setpoint") /\ has("max_charge") /\ has("max_discharge") THEN I(8)
    ELSE IF has("setpoint") THEN I(3)
    ELSE IF has("max_charge") /\ ~has("max_discharge") THEN I(1)
    ELSE IF has("max_discharge") /\ ~has("max_charge") THEN I(2)
    ELSE IF sched.mode # None THEN sched.mode ELSE I(0)

\* the last branch of the chain: auto-detection from the caller's arguments
AutoDetect(req, sched) ==
    IF req.setpoint # None /\ req.max_charge # None /\ req.max_discharge # None
    THEN I(8)
    ELSE IF req.setpoint # None THEN I(3)
    ELSE IF req.max_charge # None /\ req.max_discharge = None THEN I(1)
    ELSE IF req.max_discharge # None /\ req.max_charge = None THEN I(2)
    ELSE IF sched.mode # None THEN sched.mode ELSE I(0)

\* the if / elif chain on mode_int: one branch is taken
ModeRules(req, sched, m) ==
    IF m.mode_int = I(0)
    THEN [m EXCEPT !.setpoint_val = None, !.max_charge_val = None,
                   !.max_discharge_val = None, !.min_soc_val = None,
                   !.max_soc_val = None]
    ELSE IF m.mode_int = I(1)
    THEN [m EXCEPT !.setpoint_val = None, !.max_discharge_val = None]
    ELSE IF m.mode_int = I(2)
    THEN [m EXCEPT !.setpoint_val = None, !.max_charge_val = None]
    ELSE IF m.mode_int \in {I(3), I(4), I(5)}
    THEN [m EXCEPT !.max_charge_val = None, !.max_discharge_val = None,
                   !.min_soc_val = None, !.max_soc_val = None]
    ELSE IF m.mode_int = I(7)
    THEN [m EXCEPT !.setpoint_val = None, !.max_discharge_val = None]
    ELSE IF m.mode_int = I(8)
    THEN [m EXCEPT !.min_soc_val = None, !.max_soc_val = None]
    ELSE IF m.mode_int = I(9)
    THEN [m EXCEPT !.setpoint_val = None, !.max_charge_val = None,
                   !.max_discharge_val = None, !.min_soc_val = None,
                   !.max_soc_val = None]
    ELSE IF m.mode_int = None
    THEN [m EXCEPT !.mode_int = AutoDetect(req, sched)]
    ELSE m

\* the locals when the command is rendered
Resolved(req, sched) == ModeRules(req, sched, Merged(req, sched))

\* one element of cmd_parts: a flag and the value formatted after it
Part(flag, val) == [flag |-> flag, val |-> val]

OptPart(flag, val) == IF val # None THEN <<Part(flag, val)>> ELSE <<>>

\* cmd_parts; " ".join(cmd_parts) is the command
cmd_parts(r) ==
    <<Part("sched_set -m", r.mode_int)>>
    \o OptPart("-s", r.setpoint_val)
    \o OptPart("-c", r.max_charge_val)
    \o OptPart("-d", r.max_discharge_val)
    \o OptPart("-n", r.min_soc_val)
    \o OptPart("-x", r.max_soc_val)
    \o (IF r.grid_import_limit_val # None
        THEN <<Part("-i", PyInt(r.grid_import_limit_val))>> ELSE <<>>)
    \o (IF r.grid_export_limit_val # None
        THEN <<Part("-e", PyInt(r.grid_export_limit_val))>> ELSE <<>>)

Command(req, sched) == cmd_parts(Resolved(req, sched))

\* the eight assignments to self.schedule after the POST
WriteBack(sched, r) ==
    [sched EXCEPT !.mode = r.mode_int,
                  !.setpoint = r.setpoint_val,
                  !.max_charge = r.max_charge_val,
                  !.max_discharge = r.max_discharge_val,
                  !.min_soc = r.min_soc_val,
                  !.max_soc = r.max_soc_val,
                  !.grid_import_limit = r.grid_import_limit_val,
                  !.grid_export_limit = r.grid_export_limit_val]

(* ------------------------------------------------------------------------ *)
(* models.py                                                                *)
(* ------------------------------------------------------------------------ *)

Sensor(value, type, device_identifier) ==
    [value |-> value, type |-> type, device_identifier |-> device_identifier]

DeviceMetadata(name, model) == [name |-> name, model |-> model]

(* ------------------------------------------------------------------------ *)
(* String formatting used by the parsers                                    *)
(* ------------------------------------------------------------------------ *)

Digits == <<"0", "1", "2", "3", "4", "5", "6", "7", "8", "9">>

RECURSIVE DecStr(_)
\* the decimal digits of a natural number
DecStr(n) == IF n < 10 THEN Digits[n + 1] ELSE DecStr(n \div 10) \o Digits[(n % 10) + 1]

\* str(v) of an int or a str, as a string of the model
PyStr(v) ==
    CASE v.t = "str" -> v.s
      [] v.t = "int" -> IF v.i < 0 THEN "-" \o DecStr(-v.i) ELSE DecStr(v.i)

\* str.title() on the words the device reports
Title(w) ==
    CASE w = "" -> ""
      [] w = "grid" -> "Grid"
      [] w = "solar" -> "Solar"
      [] w = "load" -> "Load"
      [] w = "main_meter" -> "Main_Meter"

\* .replace("_", " ") on the titles above
ReplaceUnderscore(w) == IF w = "Main_Meter" THEN "Main Meter" ELSE w

\* f"{str(sensor_type).title()} {function.title()} Sensor".replace("  ", " ").replace("_", " ")
SensorDeviceName(sensor_type, function) ==
    IF function = ""
    THEN ReplaceUnderscore(Title(sensor_type)) \o " Sensor"
    ELSE ReplaceUnderscore(Title(sensor_type)) \o " "
         \o ReplaceUnderscore(Title(function)) \o " Sensor"

(* ------------------------------------------------------------------------ *)
(* _parse_schedule_data                                                     *)
(* ------------------------------------------------------------------------ *)

\* the entry the control state is read from
FirstSchedule(schedule_data) ==
    IF "schedule" \in DOMAIN schedule_data /\ Len(schedule_data["schedule"]) > 0
    THEN schedule_data["schedule"][1]
    ELSE ("type" :> I(-1)) @@ ("params" :> EmptyDict)

\* the twelve assignments to self.schedule
ScheduleFrom(schedule_data) ==
    LET entry == FirstSchedule(schedule_data)
        params == GetOr(entry, "params", EmptyDict)
    IN [mode |-> Get(entry, "type"),
        setpoint |-> Get(params, "setpoint"),
        max_charge |-> Get(entry, "max_charge"),
        max_discharge |-> Get(entry, "max_discharge"),
        min_soc |-> PyOr(Get(params, "min_soc"), Get(params, "min")),
        max_soc |-> PyOr(Get(params, "max_soc"), Get(params, "max")),
        grid_import_limit |-> Get(params, "grid_import_limit"),
        grid_export_limit |-> Get(params, "grid_export_limit"),
        threshold_high |-> Get(params, "threshold_high"),
        threshold_low |-> Get(params, "threshold_low"),
        freq_reg_droop_up |-> Get(params, "freq_reg_droop_up"),
        freq_reg_droop_down |-> Get(params, "freq_reg_droop_down")]

\* the guard `if not self.unique_id: return`
ScheduleParseReturnsEarly(uid) == ~Truthy(uid)

\* self.schedule after _parse_schedule_data
ParsedSchedule(uid, sched, schedule_data) ==
    IF ScheduleParseReturnsEarly(uid) THEN sched ELSE ScheduleFrom(schedule_data)

\* self.sensors after _parse_schedule_data
ParsedScheduleSensors(uid, sens, schedule_data) ==
    IF ScheduleParseReturnsEarly(uid) THEN sens
    ELSE LET dev == "ems_" \o uid.s
             entry == FirstSchedule(schedule_data)
             st == ScheduleFrom(schedule_data)
         IN ("Schedule id" :> Sensor(Get(schedule_data, "schedule_id"), "schedule_id", dev))
            @@ ("Schedule Type" :>
                 Sensor(Get(SCHEDULE_TYPE, GetOr(entry, "type", I(-1))), "schedule_type", dev))
            @@ ("Schedule Power Setpoint" :>
                 Sensor(st.setpoint, "schedule_power_setpoint", dev))
            @@ ("Schedule Max Power" :> Sensor(st.max_charge, "schedule_max_power", dev))
            @@ ("Schedule Max Discharge" :>
                 Sensor(st.max_discharge, "schedule_max_discharge", dev))
            @@ sens

(* ------------------------------------------------------------------------ *)
(* _parse_ems_data                                                          *)
(* ------------------------------------------------------------------------ *)

\* `not ems_data.get("ems") or not ems_data["ems"]`
NoEmsData(ems_data) == ~("ems" \in DOMAIN ems_data /\ Len(ems_data["ems"]) > 0)

HasKeys(d, group, keys) == group \in DOMAIN d /\ keys \subseteq DOMAIN d[group]

\* every subscript of the dict literal of the fixed sensors finds its key
EmsComplete(ems) ==
    /\ HasKeys(ems, "ems_voltage", {"l1", "l2", "l3", "l1_l2", "l2_l3", "l3_l1"})
    /\ HasKeys(ems, "ems_current", {"l1", "l2", "l3"})
    /\ HasKeys(ems, "ems_data", {"sys_temp", "power", "frequency", "soc_avg"})
    /\ HasKeys(ems, "ems_aggregate", {"imported_kwh", "exported_kwh"})
    /\ HasKeys(ems, "ems_prediction",
               {"avail_ch_pwr", "avail_di_pwr", "avail_ch_energy", "avail_di_energy"})

\* the dict literal passed to self.sensors.update
FixedSensors(ems, dev) ==
    ("L1 Voltage" :> Sensor(PyDiv(ems["ems_voltage"]["l1"], 10), "l1_voltage", dev))
    @@ ("L2 Voltage" :> Sensor(PyDiv(ems["ems_voltage"]["l2"], 10), "l2_voltage", dev))
    @@ ("L3 Voltage" :> Sensor(PyDiv(ems["ems_voltage"]["l3"], 10), "l3_voltage", dev))
    @@ ("L1_L2 Voltage" :>
         Sensor(PyDiv(ems["ems_voltage"]["l1_l2"], 10), "l1_l2_voltage", dev))
    @@ ("L2_L3 Voltage" :>
         Sensor(PyDiv(ems["ems_voltage"]["l2_l3"], 10), "l2_l3_voltage", dev))
    @@ ("L3_L1 Voltage" :>
         Sensor(PyDiv(ems["ems_voltage"]["l3_l1"], 10), "l3_l1_voltage", dev))
    @@ ("L1 Current" :> Sensor(ems["ems_current"]["l1"], "l1_current", dev))
    @@ ("L2 Current" :> Sensor(ems["ems_current"]["l2"], "l2_current", dev))
    @@ ("L3 Current" :> Sensor(ems["ems_current"]["l3"], "l3_current", dev))
    @@ ("System Temperature" :>
         Sensor(PyDiv(ems["ems_data"]["sys_temp"], 10), "system_temperature", dev))
    @@ ("Energy imported" :>
         Sensor(ems["ems_aggregate"]["imported_kwh"], "energy_imported", dev))
    @@ ("Energy exported" :>
         Sensor(ems["ems_aggregate"]["exported_kwh"], "energy_exported", dev))
    @@ ("Available Charging Power" :>
         Sensor(ems["ems_prediction"]["avail_ch_pwr"], "available_charging_power", dev))
    @@ ("Available Discharge Power" :>
         Sensor(ems["ems_prediction"]["avail_di_pwr"], "available_discharge_power", dev))
    @@ ("Available Charging Energy" :>
         Sensor(ems["ems_prediction"]["avail_ch_energy"], "available_charging_energy", dev))
    @@ ("Available Discharge Energy" :>
         Sensor(ems["ems_prediction"]["avail_di_energy"], "available_discharge_energy", dev))
    @@ ("Power" :> Sensor(ems["ems_data"]["power"], "power", dev))
    @@ ("Frequency" :> Sensor(ems["ems_data"]["frequency"], "frequency", dev))
    @@ ("State of Charge" :>
         Sensor(PyDiv(ems["ems_data"]["soc_avg"], 100), "state_of_charge", dev))

\* one `if "<key>" in battery:` block of the battery loop
BatterySensor(battery, key, name, value, type, dev) ==
    IF key \in DOMAIN battery THEN name :> Sensor(value, type, dev) ELSE EmptyDict

\* the sensors one pass of the battery loop writes
BatterySensors(battery, bat_id) ==
    LET dev == "battery_" \o DecStr(bat_id)
        pre == "Homevolt battery " \o DecStr(bat_id)
    IN BatterySensor(battery, "soc", pre, PyDiv(Get(battery, "soc"), 100),
                     "state_of_charge", dev)
       @@ BatterySensor(battery, "tmin", pre \o " tmin", PyDiv(Get(battery, "tmin"), 10),
                        "tmin", dev)
       @@ BatterySensor(battery, "tmax", pre \o " tmax", PyDiv(Get(battery, "tmax"), 10),
                        "tmax", dev)
       @@ BatterySensor(battery, "cycle_count", pre \o " charge cycles",
                        Get(battery, "cycle_count"), "charge_cycles", dev)
       @@ BatterySensor(battery, "voltage", pre \o " voltage",
                        PyDiv(Get(battery, "voltage"), 100), "voltage", dev)
       @@ BatterySensor(battery, "current", pre \o " current", Get(battery, "current"),
                        "current", dev)
       @@ BatterySensor(battery, "power", pre \o " power", Get(battery, "power"),
                        "power", dev)
       @@ BatterySensor(battery, "soh", pre \o " soh", PyDiv(Get(battery, "soh"), 100),
                        "soh", dev)

RECURSIVE BatteryLoop(_, _, _)
\* for bat_id, battery in enumerate(ems.get("bms_data", [])), from index k on
BatteryLoop(bms_data, k, acc) ==
    IF k > Len(bms_data) THEN acc
    ELSE BatteryLoop(bms_data, k + 1,
            [acc EXCEPT
                !.device_metadata =
                    ("battery_" \o DecStr(k - 1) :>
                        DeviceMetadata("Battery blade " \o DecStr(k - 1), "Battery blade"))
                    @@ @,
                !.sensors = BatterySensors(bms_data[k], k - 1) @@ @])

\* the sensor_type the walrus chain binds, or None when the entry is skipped
AuxSensorType(sensor) ==
    IF Truthy(Get(sensor, "sensor_type")) THEN Get(sensor, "sensor_type")
    ELSE IF Truthy(Get(sensor, "type")) THEN Get(sensor, "type")
    ELSE None

\* function, as bound by the same chain
AuxFunction(sensor) ==
    IF Truthy(Get(sensor, "sensor_type")) THEN GetOr(sensor, "function", S("")) ELSE S("")

\* the `continue` conditions of the sensor loop
AuxSkipped(sensor) ==
    \/ ~Truthy(Get(sensor, "available"))
    \/ AuxSensorType(sensor) = None
    \/ (Truthy(Get(sensor, "sensor_type")) /\ Get(sensor, "sensor_type") = S("ems"))
    \/ ~Truthy(Get(sensor, "euid"))

\* sum(phase["power"] ...) finds "power" in every phase
PhasesHavePower(phases) == \A p \in 1..Len(phases) : "power" \in DOMAIN phases[p]

RECURSIVE SumPower(_, _)
SumPower(phases, k) ==
    IF k > Len(phases) THEN 0 ELSE phases[k]["power"].i + SumPower(phases, k + 1)

PhaseNames == <<"L1", "L2", "L3">>

PhaseLower == <<"l1", "l2", "l3">>

RECURSIVE PhaseSensors(_, _, _, _)
\* for phase_name, phase in zip(["L1", "L2", "L3"], sensor.get("phase", [])), from k on
PhaseSensors(phases, k, st, dev) ==
    IF k > Len(phases) \/ k > Len(PhaseNames) THEN EmptyDict
    ELSE PhaseSensors(phases, k + 1, st, dev)
         @@ (PhaseNames[k] \o " Voltage " \o st :>
               Sensor(Get(phases[k], "voltage"), PhaseLower[k] \o "_voltage", dev))
         @@ (PhaseNames[k] \o " Current " \o st :>
               Sensor(Get(phases[k], "amp"), PhaseLower[k] \o "_current", dev))
         @@ (PhaseNames[k] \o " Power " \o st :>
               Sensor(Get(phases[k], "power"), PhaseLower[k] \o "_power", dev))

\* the sensors one pass of the sensor loop writes for an entry that is kept
AuxSensors(sensor) ==
    LET st == PyStr(AuxSensorType(sensor))
        dev == Get(sensor, "euid").s
        phases == GetOr(sensor, "phase", <<>>)
    IN PhaseSensors(phases, 1, st, dev)
       @@ ("Power " \o st :> Sensor(I(SumPower(phases, 1)), "power", dev))
       @@ ("Energy imported " \o st :>
             Sensor(GetOr(sensor, "energy_imported", I(0)), "energy_imported", dev))
       @@ ("Energy exported " \o st :>
             Sensor(GetOr(sensor, "energy_exported", I(0)), "energy_exported", dev))
       @@ ("RSSI " \o st :> Sensor(Get(sensor, "rssi"), "rssi", dev))
       @@ ("Average RSSI " \o st :> Sensor(Get(sensor, "average_rssi"), "average_rssi", dev))

RECURSIVE SensorLoop(_, _, _)
\* for sensor in ems_data.get("sensors", []), from index k on; a KeyError ends it
SensorLoop(list, k, acc) ==
    IF k > Len(list) THEN acc
    ELSE IF AuxSkipped(list[k]) THEN SensorLoop(list, k + 1, acc)
    ELSE LET sensor == list[k]
             st == AuxSensorType(sensor)
             withMeta ==
                 [acc EXCEPT !.device_metadata =
                     (Get(sensor, "euid").s :>
                        DeviceMetadata(SensorDeviceName(PyStr(st), AuxFunction(sensor).s), PyStr(st)))
                     @@ @]
         IN IF ~PhasesHavePower(GetOr(sensor, "phase", <<>>))
            THEN [withMeta EXCEPT !.result = "KeyError"]
            ELSE SensorLoop(list, k + 1,
                    [withMeta EXCEPT !.sensors = AuxSensors(sensor) @@ @])

\* _parse_ems_data: the outcome and the three attributes it assigns
ParseEms(ems_data, uid, sens, meta) ==
    IF NoEmsData(ems_data)
    THEN [result |-> "HomevoltDataError", unique_id |-> uid,
          sensors |-> sens, device_metadata |-> meta]
    ELSE LET ems == ems_data["ems"][1] IN
         IF "ecu_id" \notin DOMAIN ems
         THEN [result |-> "KeyError", unique_id |-> uid,
               sensors |-> sens, device_metadata |-> meta]
         ELSE LET device_id == PyStr(ems["ecu_id"])
                  dev == "ems_" \o device_id
                  start == [result |-> "ok", unique_id |-> S(device_id),
                            sensors |-> EmptyDict,
                            device_metadata |->
                                (dev :> DeviceMetadata("EMS " \o device_id, "EMS"))]
              IN IF ~EmsComplete(ems)
                 THEN [start EXCEPT !.result = "KeyError"]
                 ELSE SensorLoop(GetOr(ems_data, "sensors", <<>>), 1,
                        BatteryLoop(GetOr(ems, "bms_data", <<>>), 1,
                            [start EXCEPT !.sensors = FixedSensors(ems, dev)]))

(* ------------------------------------------------------------------------ *)
(* The transport session                                                    *)
(* ------------------------------------------------------------------------ *)

\* the most sessions the client creates in one behaviour
MaxSessions == 2

\* _ensure_session: the session attributes after the call
EnsureSession(ws, own, n) ==
    IF ws = NoSession
    THEN [websession |-> CreatedSession(n + 1), own_session |-> TRUE, created |-> n + 1]
    ELSE [websession |-> ws, own_session |-> own, created |-> n]

\* _ensure_session can run within the bound on created sessions
CanEnsure == ~(websession = NoSession /\ created >= MaxSessions)

\* a variant that closes whatever session is held, also the caller's
CloseSession_AnySession(ws, own, cl) ==
    IF ws # NoSession
    THEN [websession |-> NoSession, closed |-> Append(cl, ws)]
    ELSE [websession |-> ws, closed |-> cl]

\* close_connection: the session attribute and the sessions closed so far
CloseSession(ws, own, cl) ==
    IF own /\ ws # NoSession
    THEN [websession |-> NoSession, closed |-> Append(cl, ws)]
    ELSE [websession |-> ws, closed |-> cl]

(* ------------------------------------------------------------------------ *)
(* HTTP exchanges                                                           *)
(* ------------------------------------------------------------------------ *)

\* what the device answers to a POST: 2xx, 401, or a failure aiohttp raises as ClientError
PostResponses == {"ok", "401", "error"}

\* the exception a response is turned into ("ok": none)
Outcome(r) ==
    CASE r = "ok" -> "ok"
      [] r = "401" -> "HomevoltAuthenticationError"
      [] r = "error" -> "HomevoltConnectionError"
      [] r = "badjson" -> "HomevoltDataError"

\* the request _set_local_mode sends, with the answer r it got
LocalModePost(value, r) ==
    [endpoint |-> ENDPOINT_PARAMS, json |-> [settings_local |-> value], answer |-> r]

\* the request set_battery_mode sends, with the answer r it got
CommandPost(parts, r) ==
    [endpoint |-> ENDPOINT_CONSOLE, json |-> [command |-> parts], answer |-> r]

\* the precondition step of set_battery_mode: the POSTs it sends
EnableStep(cs, r) == IF local_mode_enabled(cs) THEN <<>> ELSE <<LocalModePost(1, r)>>

\* a variant that writes the control state before the answer is looked at
ScheduleAfterPost_BeforeAnswer(r, sched, res) == WriteBack(sched, res)

\* self.schedule after the command POST was answered with r
ScheduleAfterPost(r, sched, res) == IF r = "ok" THEN WriteBack(sched, res) ELSE sched

\* set_battery_mode after _ensure_session: its outcome, the POSTs sent, self.schedule
SetBatteryModeCall(req, r1, r2, cs, sched) ==
    LET enable == EnableStep(cs, r1) IN
    IF Len(enable) > 0 /\ r1 # "ok"
    THEN [result |-> Outcome(r1), posts |-> enable, schedule |-> sched]
    ELSE IF ModeRejected(req.mode)
    THEN [result |-> "ValueError", posts |-> enable, schedule |-> sched]
    ELSE LET res == Resolved(req, sched) IN
         [result |-> Outcome(r2),
          posts |-> enable \o <<CommandPost(cmd_parts(res), r2)>>,
          schedule |-> ScheduleAfterPost(r2, sched, res)]

(* ------------------------------------------------------------------------ *)
(* The inputs: device responses and caller requests                          *)
(* ------------------------------------------------------------------------ *)

\* a schedule entry of an inverter charge with limits and both long SOC names
EntryCharge ==
    ("type" :> I(1)) @@ ("max_charge" :> I(500))
    @@ ("params" :> (("min_soc" :> I(20)) @@ ("max_soc" :> I(80))))

\* a schedule entry that uses the short SOC names and reports zeros
EntryAlias ==
    ("type" :> I(3)) @@ ("max_charge" :> I(0)) @@ ("max_discharge" :> I(300))
    @@ ("params" :>
          (("setpoint" :> I(700)) @@ ("min_soc" :> I(0)) @@ ("min" :> I(10))
           @@ ("max" :> I(90)) @@ ("grid_import_limit" :> I(40))
           @@ ("threshold_high" :> I(9)) @@ ("threshold_low" :> I(1))
           @@ ("freq_reg_droop_up" :> I(2)) @@ ("freq_reg_droop_down" :> I(3))))

\* a body of /schedule.json: the local_mode flag (or none) and the schedule list
ScheduleDoc(flag, list) == flag @@ ("schedule_id" :> S("sid")) @@ ("schedule" :> list)

LocalMode(b) == "local_mode" :> B(b)

\* the bodies /schedule.json answers with
ScheduleDocs ==
    {EmptyDict,
     ScheduleDoc(EmptyDict, <<>>),
     ScheduleDoc(LocalMode(TRUE), <<>>),
     ScheduleDoc(EmptyDict, <<EntryCharge>>),
     ScheduleDoc(LocalMode(TRUE), <<EntryCharge>>),
     ScheduleDoc(LocalMode(FALSE), <<EntryAlias>>),
     ScheduleDoc(LocalMode(TRUE), <<EmptyDict, EntryAlias>>)}

\* the record of one EMS unit, every reading derived from v
EmsRecord(ecu, v) ==
    ("ecu_id" :> I(ecu))
    @@ ("ems_voltage" :> [k \in {"l1", "l2", "l3", "l1_l2", "l2_l3", "l3_l1"} |-> I(2300 + v)])
    @@ ("ems_current" :> [k \in {"l1", "l2", "l3"} |-> I(v)])
    @@ ("ems_data" :> [k \in {"sys_temp", "power", "frequency", "soc_avg"} |-> I(250 + v)])
    @@ ("ems_aggregate" :> [k \in {"imported_kwh", "exported_kwh"} |-> I(v)])
    @@ ("ems_prediction" :>
          [k \in {"avail_ch_pwr", "avail_di_pwr", "avail_ch_energy", "avail_di_energy"} |->
              I(v)])

Phase(v) == ("voltage" :> I(230)) @@ ("amp" :> I(v)) @@ ("power" :> I(230 * v))

AuxGrid ==
    ("available" :> B(TRUE)) @@ ("sensor_type" :> S("grid"))
    @@ ("function" :> S("main_meter")) @@ ("euid" :> S("a1"))
    @@ ("phase" :> <<Phase(1), Phase(2)>>) @@ ("rssi" :> I(-60))

AuxSolar ==
    ("available" :> B(TRUE)) @@ ("type" :> S("solar")) @@ ("euid" :> S("a2"))
    @@ ("energy_imported" :> I(4))

AuxUnavailable == ("available" :> B(FALSE)) @@ ("sensor_type" :> S("load"))

AuxEms == ("available" :> B(TRUE)) @@ ("sensor_type" :> S("ems")) @@ ("euid" :> S("a3"))

\* a phase without "power"
AuxBroken ==
    ("available" :> B(TRUE)) @@ ("sensor_type" :> S("load")) @@ ("euid" :> S("a4"))
    @@ ("phase" :> <<"voltage" :> I(230)>>)

Battery == ("soc" :> I(5000)) @@ ("tmin" :> I(200)) @@ ("cycle_count" :> I(12))

\* the bodies /ems.json answers with
TelemetryDocs ==
    {EmptyDict,
     "ems" :> <<>>,
     "ems" :> <<"ems_data" :> [k \in {"power"} |-> I(1)]>>,
     "ems" :> <<("ecu_id" :> I(7)) @@ ("ems_voltage" :> [k \in {"l1"} |-> I(2300)])>>,
     "ems" :> <<EmsRecord(1, 1)>>,
     ("ems" :> <<EmsRecord(1, 2) @@ ("bms_data" :> <<Battery>>)>>)
        @@ ("sensors" :> <<AuxUnavailable, AuxGrid, AuxEms, AuxSolar>>),
     ("ems" :> <<EmsRecord(42, 1)>>) @@ ("sensors" :> <<AuxSolar, AuxBroken, AuxGrid>>)}

\* the arguments of one set_battery_mode call
Req(mode, setpoint, max_charge, max_discharge, min_soc, max_soc, gil, gel) ==
    [mode |-> mode, setpoint |-> setpoint, max_charge |-> max_charge,
     max_discharge |-> max_discharge, min_soc |-> min_soc, max_soc |-> max_soc,
     grid_import_limit |-> gil, grid_export_limit |-> gel]

\* a call without arguments
NoArgs == Req(None, None, None, None, None, None, None, None)

\* mode names validation rejects: a key of the table and a stranger
RejectedModes == {S("idle"), S("bogus")}

\* the calls the client makes in the model; max_soc is passed as the float 90.5
Requests ==
    {NoArgs,
     [NoArgs EXCEPT !.setpoint = I(1000)],
     [NoArgs EXCEPT !.max_charge = I(600)],
     [NoArgs EXCEPT !.max_discharge = I(300), !.max_soc = I(0)],
     [NoArgs EXCEPT !.setpoint = I(1000), !.max_charge = I(600), !.max_discharge = I(300)],
     [NoArgs EXCEPT !.min_soc = I(30), !.max_soc = F(905, 10), !.grid_import_limit = I(25)],
     [NoArgs EXCEPT !.mode = S("Inverter charge")],
     [NoArgs EXCEPT !.mode = S("Idle"), !.setpoint = I(1000), !.grid_export_limit = I(15)],
     [NoArgs EXCEPT !.mode = S("bogus")],
     [NoArgs EXCEPT !.mode = S("idle"), !.setpoint = I(1000)]}

\* an answer to a GET: a failure, or a body
Failed(r) == [r |-> r]

Body(doc) == [r |-> "ok", doc |-> doc]

GetFailures == {"401", "error", "badjson"}

EmsAnswers == {Failed(r) : r \in GetFailures} \cup {Body(d) : d \in TelemetryDocs}

\* the answers update_info is run on: one failure and some bodies for each GET
UpdateEmsAnswers ==
    {Failed("error"), Body("ems" :> <<>>), Body("ems" :> <<EmsRecord(1, 1)>>)}

UpdateScheduleAnswers ==
    {Failed("401"), Body(ScheduleDoc(EmptyDict, <<>>)),
     Body(ScheduleDoc(LocalMode(TRUE), <<EntryCharge>>)),
     Body(ScheduleDoc(LocalMode(FALSE), <<EntryAlias>>))}

ScheduleAnswers == {Failed(r) : r \in GetFailures} \cup {Body(d) : d \in ScheduleDocs}

\* the most calls of one behaviour
MaxOps == 3

(* ------------------------------------------------------------------------ *)
(* The client                                                               *)
(* ------------------------------------------------------------------------ *)

\* what the last call was, how it ended and the POSTs it sent; req holds the
\* arguments of a set_battery_mode call; again tells that the call before it was a
\* successful set_battery_mode with the same arguments
LastCall(op, result, posts, req, again) ==
    [op |-> op, result |-> result, posts |-> posts, req |-> req, again |-> again]

Last(op, result, posts) == LastCall(op, result, posts, NoArgs, FALSE)

\* the client after __init__, with or without a session of the caller
Init ==
    /\ websession \in {NoSession, SuppliedSession}
    /\ own_session = (websession = NoSession)
    /\ created = 0
    /\ closed = <<>>
    /\ ops = 0
    /\ unique_id = None
    /\ sensors = EmptyDict
    /\ device_metadata = EmptyDict
    /\ current_schedule = NoSchedule
    /\ schedule = InitialSchedule
    /\ last = Last("__init__", "ok", <<>>)

\* one more call, within the bound
Called ==
    /\ ops < MaxOps
    /\ ops' = ops + 1

\* the three session attributes after _ensure_session
Ensured ==
    LET e == EnsureSession(websession, own_session, created) IN
    /\ websession' = e.websession
    /\ own_session' = e.own_session
    /\ created' = e.created
    /\ UNCHANGED closed

\* fetch_ems_data after _ensure_session: the GET, then _parse_ems_data
EmsFetch(a) ==
    IF a.r # "ok"
    THEN [result |-> Outcome(a.r), unique_id |-> unique_id,
          sensors |-> sensors, device_metadata |-> device_metadata]
    ELSE ParseEms(a.doc, unique_id, sensors, device_metadata)

FetchEmsData(a) ==
    /\ Called
    /\ CanEnsure
    /\ Ensured
    /\ \E p \in {EmsFetch(a)} :
        /\ unique_id' = p.unique_id
        /\ sensors' = p.sensors
        /\ device_metadata' = p.device_metadata
        /\ last' = Last("fetch_ems_data", p.result, <<>>)
    /\ UNCHANGED <<current_schedule, schedule>>

FetchScheduleData(a) ==
    /\ Called
    /\ CanEnsure
    /\ Ensured
    /\ IF a.r # "ok"
       THEN UNCHANGED <<current_schedule, schedule, sensors>>
       ELSE /\ current_schedule' = Fetched(a.doc)
            /\ schedule' = ParsedSchedule(unique_id, schedule, a.doc)
            /\ sensors' = ParsedScheduleSensors(unique_id, sensors, a.doc)
    /\ last' = Last("fetch_schedule_data", Outcome(a.r), <<>>)
    /\ UNCHANGED <<unique_id, device_metadata>>

\* update_info: fetch_ems_data, then fetch_schedule_data unless the first raised
UpdateInfo(a1, a2) ==
    /\ Called
    /\ CanEnsure
    /\ Ensured
    /\ \E p \in {EmsFetch(a1)} :
        /\ unique_id' = p.unique_id
        /\ device_metadata' = p.device_metadata
        /\ IF p.result # "ok"
           THEN /\ sensors' = p.sensors
                /\ last' = Last("update_info", p.result, <<>>)
                /\ UNCHANGED <<current_schedule, schedule>>
           ELSE IF a2.r # "ok"
           THEN /\ sensors' = p.sensors
                /\ last' = Last("update_info", Outcome(a2.r), <<>>)
                /\ UNCHANGED <<current_schedule, schedule>>
           ELSE /\ current_schedule' = Fetched(a2.doc)
                /\ schedule' = ParsedSchedule(p.unique_id, schedule, a2.doc)
                /\ sensors' = ParsedScheduleSensors(p.unique_id, p.sensors, a2.doc)
                /\ last' = Last("update_info", "ok", <<>>)

\* r1 answers the enable POST, r2 the command POST; a POST that is not sent is not
\* answered (its answer is fixed to "ok")
SetBatteryMode(req, r1, r2) ==
    /\ Called
    /\ CanEnsure
    /\ Ensured
    /\ r1 # "ok" => r2 = "ok"
    /\ Len(EnableStep(current_schedule, r1)) = 0 => r1 = "ok"
    /\ ModeRejected(req.mode) => r2 = "ok"
    /\ \E c \in {SetBatteryModeCall(req, r1, r2, current_schedule, schedule)} :
        /\ schedule' = c.schedule
        /\ last' = LastCall("set_battery_mode", c.result, c.posts, req,
                          last.op = "set_battery_mode" /\ last.result = "ok"
                          /\ last.req = req)
    /\ UNCHANGED <<unique_id, sensors, device_metadata, current_schedule>>

\* a variant that records the value it set in the schedule response it holds
SetLocalMode_Remembers(op, value, r) ==
    /\ Called
    /\ CanEnsure
    /\ Ensured
    /\ last' = Last(op, Outcome(r), <<LocalModePost(value, r)>>)
    /\ current_schedule' =
          IF r # "ok" THEN current_schedule
          ELSE Fetched(("local_mode" :> B(value = 1))
                       @@ (IF current_schedule = NoSchedule THEN EmptyDict
                           ELSE current_schedule.doc))
    /\ UNCHANGED <<unique_id, sensors, device_metadata, schedule>>

\* _set_local_mode(value)
SetLocalMode(op, value, r) ==
    /\ Called
    /\ CanEnsure
    /\ Ensured
    /\ last' = Last(op, Outcome(r), <<LocalModePost(value, r)>>)
    /\ UNCHANGED <<unique_id, sensors, device_metadata, current_schedule, schedule>>

EnableLocalMode(r) == SetLocalMode("enable_local_mode", 1, r)

DisableLocalMode(r) == SetLocalMode("disable_local_mode", 0, r)

\* close_connection, also as __aexit__ runs it
Closing(op) ==
    /\ Called
    /\ LET c == CloseSession(websession, own_session, closed) IN
        /\ websession' = c.websession
        /\ closed' = c.closed
    /\ last' = Last(op, "ok", <<>>)
    /\ UNCHANGED <<own_session, created, unique_id, sensors, device_metadata,
                   current_schedule, schedule>>

CloseConnection == Closing("close_connection")

AExit == Closing("__aexit__")

AEnter ==
    /\ Called
    /\ CanEnsure
    /\ Ensured
    /\ last' = Last("__aenter__", "ok", <<>>)
    /\ UNCHANGED <<unique_id, sensors, device_metadata, current_schedule, schedule>>

Next ==
    \/ \E a \in EmsAnswers : FetchEmsData(a)
    \/ \E a \in ScheduleAnswers : FetchScheduleData(a)
    \/ \E a1 \in UpdateEmsAnswers, a2 \in UpdateScheduleAnswers : UpdateInfo(a1, a2)
    \/ \E req \in Requests, r1 \in PostResponses, r2 \in PostResponses :
          SetBatteryMode(req, r1, r2)
    \/ \E r \in PostResponses : EnableLocalMode(r)
    \/ \E r \in PostResponses : DisableLocalMode(r)
    \/ CloseConnection
    \/ AEnter
    \/ AExit

Spec == Init /\ [][Next]_vars

(* ------------------------------------------------------------------------ *)
(* Properties                                                               *)
(* ------------------------------------------------------------------------ *)

\* this step is a call of set_battery_mode
SetCall == last'.op = "set_battery_mode" /\ ops' = ops + 1

IsEnablePost(p) == p.endpoint = ENDPOINT_PARAMS /\ p.json = [settings_local |-> 1]

IsCommandPost(p) == p.endpoint = ENDPOINT_CONSOLE

\* the call l sent a command
SentCommand(l) == Len(l.posts) > 0 /\ IsCommandPost(l.posts[Len(l.posts)])

\* the command the call l sent
CommandOf(l) == l.posts[Len(l.posts)].json.command

Flags(cmd) == {cmd[k].flag : k \in 1..Len(cmd)}

\* C1: a set_battery_mode call with a mode name the table does not hold raises the
\* validation error, sends no POST at all (neither the local-mode enable nor the
\* command) and leaves the control state as it was, in every client state.
C1_RejectedModeSendsNothing ==
    [][(SetCall /\ ModeRejected(last'.req.mode))
        => (/\ last'.result = "ValueError"
            /\ last'.posts = <<>>
            /\ schedule' = schedule)]_vars

\* C2: no sched_set command that is sent carries the mode -1.
C2_NoSentinelModeCommand ==
    \A k \in 1..Len(last.posts) :
        IsCommandPost(last.posts[k]) => last.posts[k].json.command[1].val # I(-1)

\* the flags the mode rules clear for an integer mode code
ClearedFlags(m) ==
    IF m \in {I(0), I(9)} THEN {"-s", "-c", "-d", "-n", "-x"}
    ELSE IF m \in {I(1), I(7)} THEN {"-s", "-d"}
    ELSE IF m = I(2) THEN {"-s", "-c"}
    ELSE IF m \in {I(3), I(4), I(5)} THEN {"-c", "-d", "-n", "-x"}
    ELSE IF m = I(8) THEN {"-n", "-x"}
    ELSE {}

\* C3: when the caller omits the mode, the command carries none of the flags the
\* resolved mode clears; with stored mode 1 (inverter charge) and no arguments the
\* mode flag is 1 and -s and -d are absent; with the control state all unset and
\* only setpoint = 1000 the command is the mode flag 3 followed by -s 1000 alone.
C3_OmittedModeStillClears ==
    [][(SetCall /\ SentCommand(last') /\ last'.req.mode = None)
        => LET cmd == CommandOf(last') IN
           /\ Flags(cmd) \cap ClearedFlags(cmd[1].val) = {}
           /\ (last'.req = NoArgs /\ schedule.mode = I(1))
                => (cmd[1].val = I(1) /\ "-s" \notin Flags(cmd) /\ "-d" \notin Flags(cmd))
           /\ (last'.req = [NoArgs EXCEPT !.setpoint = I(1000)]
                  /\ schedule = InitialSchedule)
                => cmd = <<Part("sched_set -m", I(3)), Part("-s", I(1000))>>]_vars

\* C4: in a set_battery_mode call, a POST answered with 401 or with a transport
\* failure is the last POST of the call (a failed enable POST is followed by no
\* command POST), the call ends with the matching error, and the twelve fields
\* of the control state keep their values.
C4_FailedPostAborts ==
    [][SetCall
        => \A k \in 1..Len(last'.posts) :
              last'.posts[k].answer # "ok"
                => (/\ k = Len(last'.posts)
                    /\ last'.result = Outcome(last'.posts[k].answer)
                    /\ last'.result \in {"HomevoltAuthenticationError",
                                         "HomevoltConnectionError"}
                    /\ schedule' = schedule)]_vars

\* C4 witness: the enable POST succeeded, the command POST was answered 401, and
\* the command would have changed the control state.
C4_Witness ==
    /\ last.op = "set_battery_mode"
    /\ Len(last.posts) = 2
    /\ IsEnablePost(last.posts[1])
    /\ IsCommandPost(last.posts[2])
    /\ last.posts[2].answer = "401"
    /\ WriteBack(schedule, Resolved(last.req, schedule)) # schedule

\* the local_mode flag of the last-fetched schedule response is present and true
FlagTrue(cs) ==
    /\ cs # NoSchedule
    /\ "local_mode" \in DOMAIN cs.doc
    /\ cs.doc["local_mode"] = B(TRUE)

\* C5: in a set_battery_mode call that sends a POST, the enable POST is sent
\* exactly when the local_mode flag of the last-fetched schedule response is not
\* true (absent, false, or nothing fetched); it is the first POST, the command
\* POST comes after it, and with a true flag the command is the only POST.
C5_EnableIffNotLocalMode ==
    [][(SetCall /\ Len(last'.posts) > 0)
        => LET posts == last'.posts IN
           /\ (\E k \in 1..Len(posts) : IsEnablePost(posts[k]))
                <=> ~FlagTrue(current_schedule)
           /\ \A k \in 1..Len(posts) : IsEnablePost(posts[k]) => k = 1
           /\ \A k \in 1..Len(posts) :
                 IsCommandPost(posts[k]) => (k = Len(posts) /\ (k = 1 \/ k = 2))
           /\ FlagTrue(current_schedule)
                => (Len(posts) = 1 /\ IsCommandPost(posts[1]))]_vars

\* C5 witness: a response with local_mode false was fetched, and the call sent the
\* enable POST and then the command.
C5_Witness ==
    /\ last.op = "set_battery_mode"
    /\ last.result = "ok"
    /\ current_schedule # NoSchedule
    /\ Get(current_schedule.doc, "local_mode") = B(FALSE)
    /\ Len(last.posts) = 2
    /\ IsEnablePost(last.posts[1])
    /\ IsCommandPost(last.posts[2])

\* C6: a fetch_ems_data call whose parse fails (DataError for a missing or empty
\* EMS list, KeyError for a field missing further down) leaves sensors,
\* device_metadata and the control state as they were.
C6_FailedParseWritesNothing ==
    [][(last'.op = "fetch_ems_data" /\ ops' = ops + 1
           /\ last'.result \in {"HomevoltDataError", "KeyError"})
        => (/\ sensors' = sensors
            /\ device_metadata' = device_metadata
            /\ schedule' = schedule)]_vars

\* C7: after a successful fetch_schedule_data the twelve fields of the control
\* state are the values computed from that response, whether or not a telemetry
\* parse has set the device id.
C7_ScheduleParseOverwrites ==
    (last.op = "fetch_schedule_data" /\ last.result = "ok")
        => schedule = ScheduleFrom(current_schedule.doc)

\* the sessions the client created and has not closed
OpenSessions ==
    {n \in 1..created : \A k \in 1..Len(closed) : closed[k] # CreatedSession(n)}

\* C8: the client holds at most one session; a session it created and has not
\* closed is the one it holds; none exists before the first use; after
\* close_connection (or the context exit) every created session is closed; no
\* session is closed twice; the caller's session is never closed.
C8_SessionOwnership ==
    /\ Cardinality(OpenSessions) <= 1
    /\ \A n \in OpenSessions : websession = CreatedSession(n)
    /\ websession = SuppliedSession => created = 0
    /\ last.op = "__init__" => created = 0
    /\ last.op \in {"close_connection", "__aexit__"} => OpenSessions = {}
    /\ \A j, k \in 1..Len(closed) : closed[j] = closed[k] => j = k
    /\ \A k \in 1..Len(closed) : closed[k] # SuppliedSession

\* C8 witness: a first session was created and closed, a second one was created
\* on the next use.
C8_Witness ==
    /\ created = 2
    /\ closed = <<CreatedSession(1)>>
    /\ websession = CreatedSession(2)

\* C9: a successful set_battery_mode call that repeats the arguments of the
\* successful call just before it sends the same command and leaves the control
\* state as that call left it.
C9_RepeatedCallIdempotent ==
    [][(/\ SetCall
        /\ last'.result = "ok"
        /\ last.op = "set_battery_mode"
        /\ last.result = "ok"
        /\ last'.req = last.req)
        => (CommandOf(last') = CommandOf(last) /\ schedule' = schedule)]_vars

\* C9 witness: a call with arguments was repeated, and both calls succeeded.
C9_Witness ==
    /\ last.op = "set_battery_mode"
    /\ last.result = "ok"
    /\ last.again
    /\ last.req.setpoint # None
    /\ last.req.mode = None

\* mode names tried against validation
CandidateNames ==
    RejectedModes \cup {S("Idle"), S("Inverter charge"), S("Frequency reserve"), S("")}

\* C10: the table is defined on every integer 0..9, the name of i maps back to i
\* through valid_modes, validation rejects every string that is not a name of the
\* table, and the mode a call with an accepted name sends is the integer of that
\* name.
C10_TableRoundTrip ==
    /\ \A i \in 0..9 :
          /\ I(i) \in DOMAIN SCHEDULE_TYPE
          /\ SCHEDULE_TYPE[I(i)] \in DOMAIN valid_modes
          /\ valid_modes[SCHEDULE_TYPE[I(i)]] = I(i)
    /\ \A m \in CandidateNames :
          m \notin {SCHEDULE_TYPE[k] : k \in DOMAIN SCHEDULE_TYPE} => ModeRejected(m)
    /\ (last.op = "set_battery_mode" /\ last.req.mode # None /\ SentCommand(last))
          => LET sent == CommandOf(last)[1].val IN
             /\ sent \in {I(i) : i \in 0..9}
             /\ Get(SCHEDULE_TYPE, sent) = last.req.mode

\* the arguments among setpoint, max_charge, max_discharge the call supplied
Supplied(req) == {f \in {"setpoint", "max_charge", "max_discharge"} : req[f] # None}

\* C11: a set_battery_mode call without a mode sends the mode that the supplied
\* arguments select, whatever the control state holds for the other fields: all
\* of setpoint, max_charge, max_discharge give 8; setpoint alone gives 3;
\* max_charge alone gives 1; max_discharge alone gives 2; none of them gives the
\* stored mode, or 0 when no mode is stored; a successful call stores that mode.
C11_AutoDetectFromArguments ==
    [][(SetCall /\ SentCommand(last') /\ last'.req.mode = None)
        => LET sent == CommandOf(last')[1].val
               given == Supplied(last'.req)
           IN /\ given = {"setpoint", "max_charge", "max_discharge"} => sent = I(8)
              /\ given = {"setpoint"} => sent = I(3)
              /\ given = {"max_charge"} => sent = I(1)
              /\ given = {"max_discharge"} => sent = I(2)
              /\ given = {} => sent = (IF schedule.mode # None THEN schedule.mode ELSE I(0))
              /\ last'.result = "ok" => schedule'.mode = sent]_vars

\* C11 witness: the control state held a setpoint and a discharge limit, the call
\* supplied max_charge alone, and the command carried mode 1 with the stored
\* setpoint.
C11_Witness ==
    /\ last.op = "set_battery_mode"
    /\ last.result = "ok"
    /\ last.req = [NoArgs EXCEPT !.max_charge = I(600)]
    /\ CommandOf(last)[1].val = I(1)
    /\ \E k \in 1..Len(CommandOf(last)) : CommandOf(last)[k] = Part("-s", I(700))
    /\ \E k \in 1..Len(CommandOf(last)) : CommandOf(last)[k] = Part("-d", I(300))

\* the five fields a mode can clear, with the flag each is rendered under
ClearableFlags == {"-s", "-c", "-d", "-n", "-x"}

\* the flags the table clears for a mode, by the key of the mode in SCHEDULE_TYPE
ClearedForName(key) ==
    IF key \in {S("idle"), S("full_solar_export")} THEN {"-s", "-c", "-d", "-n", "-x"}
    ELSE IF key \in {S("inverter_charge"), S("solar_charge")} THEN {"-s", "-d"}
    ELSE IF key = S("inverter_discharge") THEN {"-s", "-c"}
    ELSE IF key \in {S("grid_charge"), S("grid_discharge"), S("grid_charge_discharge")}
    THEN {"-c", "-d", "-n", "-x"}
    ELSE IF key = S("solar_charge_discharge") THEN {"-n", "-x"}
    ELSE {}

\* the flags of a command after the mode flag, in the order they are rendered
FlagOrder == <<"-s", "-c", "-d", "-n", "-x", "-i", "-e">>

\* the position of a flag in FlagOrder
FlagRank(flag) == CHOOSE k \in 1..Len(FlagOrder) : FlagOrder[k] = flag

\* C12: a set_battery_mode call with a mode name that validation accepts sends a
\* command that omits exactly the fields the table clears for that mode, whatever
\* the caller supplied and whatever is stored (idle: all five of setpoint,
\* max_charge, max_discharge, min_soc, max_soc; inverter charge: setpoint and
\* max_discharge); the fields that are rendered follow the mode flag in the order
\* -s, -c, -d, -n, -x, -i, -e.
C12_NamedModeClearsFields ==
    [][(SetCall /\ SentCommand(last') /\ last'.req.mode # None)
        => LET cmd == CommandOf(last')
               cleared == ClearedForName(valid_modes[last'.req.mode])
           IN /\ Flags(cmd) \cap ClearableFlags = ClearableFlags \ cleared
              /\ cmd[1].flag = "sched_set -m"
              /\ \A j, k \in 2..Len(cmd) :
                    j < k => FlagRank(cmd[j].flag) < FlagRank(cmd[k].flag)]_vars

\* the value a command carries under a flag, or None when the flag is absent
Rendered(cmd, flag) ==
    IF \E k \in 2..Len(cmd) : cmd[k].flag = flag
    THEN cmd[CHOOSE k \in 2..Len(cmd) : cmd[k].flag = flag].val
    ELSE None

\* the caller's value when supplied, else the stored value when it is set, else
\* the default (None: no default)
MergeSource(arg, stored, default) ==
    IF arg # None THEN arg ELSE IF stored # None THEN stored ELSE default

\* a number as the integer it is rendered as; None stays None
AsInt(v) == IF v = None THEN None ELSE PyInt(v)

\* the fields that merge with a default: the flag and the default of each
DefaultedFields ==
    {<<"setpoint", "-s", 0>>, <<"max_charge", "-c", 0>>, <<"max_discharge", "-d", 0>>,
     <<"min_soc", "-n", 0>>, <<"max_soc", "-x", 100>>}

\* the grid limits: merged without a default
LimitFields == {<<"grid_import_limit", "-i">>, <<"grid_export_limit", "-e">>}

\* C13: in a set_battery_mode call that sends a command, each of setpoint,
\* max_charge, max_discharge, min_soc, max_soc that is rendered carries, as an
\* integer, the caller's value when supplied, else the stored value when it is set
\* (a stored 0 is set), else the default (100 for max_soc, 0 for the others), and a
\* successful call stores that value or clears the field; the grid limits carry
\* the caller's value, else the stored one, and when both are absent no -i / -e
\* flag is rendered and the stored limit stays null.
C13_MergePrecedence ==
    [][(SetCall /\ SentCommand(last'))
        => \A cmd \in {CommandOf(last')} :
              /\ \A fd \in DefaultedFields :
                    \A got \in {Rendered(cmd, fd[2])} :
                       /\ got # None
                            => got = AsInt(MergeSource(last'.req[fd[1]], schedule[fd[1]],
                                                       I(fd[3])))
                       /\ last'.result = "ok" => schedule'[fd[1]] = got
              /\ \A fl \in LimitFields :
                    \A merged \in {AsInt(MergeSource(last'.req[fl[1]], schedule[fl[1]],
                                                     None))} :
                       /\ Rendered(cmd, fl[2]) = merged
                       /\ last'.result = "ok" => schedule'[fl[1]] = merged]_vars

\* C13 witness: the control state held max_soc 0 and no grid limit, the call
\* supplied neither, and the command carried -x 0 and no -i.
C13_Witness ==
    /\ last.op = "set_battery_mode"
    /\ last.result = "ok"
    /\ last.req = NoArgs
    /\ last.again = FALSE
    /\ Rendered(CommandOf(last), "-x") = I(0)
    /\ Rendered(CommandOf(last), "-i") = None

\* the safety parameters, with the flag each is rendered under
SafetyFields ==
    {<<"min_soc", "-n">>, <<"max_soc", "-x">>, <<"max_charge", "-c">>,
     <<"max_discharge", "-d">>}

\* the last call was a refresh that fetched and parsed a schedule response
ScheduleJustParsed ==
    /\ last.op \in {"fetch_schedule_data", "update_info"}
    /\ last.result = "ok"
    /\ current_schedule # NoSchedule

\* C14: the merge never resets a safety parameter the caller did not touch. When
\* a schedule parse reported a value for min_soc, max_soc, max_charge or
\* max_discharge and the set_battery_mode call that follows it does not supply
\* that field, the command either omits the field or carries the reported value,
\* never a default (0 or 100) in its place.
C14_UntouchedSafetyKept ==
    [][(SetCall /\ SentCommand(last') /\ ScheduleJustParsed)
        => LET reported == ScheduleFrom(current_schedule.doc)
               cmd == CommandOf(last')
           IN \A fs \in SafetyFields :
                 (reported[fs[1]] # None /\ last'.req[fs[1]] = None)
                    => Rendered(cmd, fs[2]) \in {None, AsInt(reported[fs[1]])}]_vars

\* the call l sent the local-mode enable command and the device accepted it
EnabledBy(l) ==
    \E k \in 1..Len(l.posts) : IsEnablePost(l.posts[k]) /\ l.posts[k].answer = "ok"

\* this step is a call that can send a POST
PostingCall ==
    /\ ops' = ops + 1
    /\ last'.op \in {"enable_local_mode", "disable_local_mode", "set_battery_mode"}

\* C15 as claimed: after a successful enable_local_mode, local_mode_enabled
\* reports true; after a successful disable_local_mode it reports false; a
\* set_battery_mode call that directly follows a call that sent the enable
\* command successfully does not send the enable command again.
C15_EnableIsRemembered ==
    [][PostingCall
        => /\ (last'.op = "enable_local_mode" /\ last'.result = "ok")
                => local_mode_enabled(current_schedule')
           /\ (last'.op = "disable_local_mode" /\ last'.result = "ok")
                => ~local_mode_enabled(current_schedule')
           /\ (last'.op = "set_battery_mode" /\ EnabledBy(last))
                => \A k \in 1..Len(last'.posts) : ~IsEnablePost(last'.posts[k])]_vars

\* C15 amended: local_mode_enabled reports the local_mode flag of the
\* last-fetched schedule response; no enable_local_mode, disable_local_mode or
\* set_battery_mode call changes the response it reads, whatever the device
\* answered; and a set_battery_mode call sends the enable command first exactly
\* when the flag is not true, also when the call before it enabled local mode.
C15_LocalModeFromLastFetch ==
    [][PostingCall
        => /\ current_schedule' = current_schedule
           /\ local_mode_enabled(current_schedule') = FlagTrue(current_schedule)
           /\ last'.op = "set_battery_mode"
                => ((Len(last'.posts) > 0 /\ IsEnablePost(last'.posts[1]))
                      <=> ~FlagTrue(current_schedule))]_vars

\* C15 witness: a successful set_battery_mode call sent the enable command, and the
\* same call repeated right after it, with no refresh between, sent it again.
C15_Witness ==
    /\ last.op = "set_battery_mode"
    /\ last.result = "ok"
    /\ last.again
    /\ EnabledBy(last)
    /\ ~local_mode_enabled(current_schedule)

====
